---- MODULE Spec2Model ----
(***************************************************************************)
(* Quartiles Solver v3.1 (src/solver.py): the blocklist store, the backup  *)
(* manager, the response parser and the interactive shell, as a state      *)
(* machine.  A string is a sequence of one-character strings, a file is    *)
(* the sequence of its newline-terminated lines.                           *)
(***************************************************************************)
EXTENDS Integers, Sequences, FiniteSets, TLC

VARIABLES
    pc,           \* where main() is: "backup", "clean" or "menu"
    file,         \* blocklist.txt: [exists, lines]
    snapshots,    \* blocklist_backup_<ts>.txt files: timestamp -> lines
    hasKey,       \* whether OPENAI_API_KEY is non-empty in this process
    out,          \* the terminal after the last operation, see Terminal
    lastBackup,   \* history: the lines the most recent successful backup copied
    text,         \* parser harness: the response text
    existing,     \* parser harness: the existing blocklist
    result,       \* parser harness: the list detect_potential_invalids returned
    parsed        \* parser harness: whether the parser has run

vars == <<pc, file, snapshots, hasKey, out, lastBackup, text, existing, result, parsed>>

shellVars == <<pc, file, snapshots, hasKey, out, lastBackup>>

parserVars == <<text, existing, result, parsed>>

----------------------------------------------------------------------------
(* Bounds *)

\* timestamps (seconds) a backup can be named with: 1..MaxClock
MaxClock == 2

\* number of lines of a blocklist file handed to clean_blocklist_file alone
MaxFileLines == 3

\* number of lines of a response text
MaxTextLines == 2

----------------------------------------------------------------------------
(* Characters and strings *)

Upper ==
    <<"A", "B", "C", "D", "E", "F", "G", "H", "I", "J", "K", "L", "M",
      "N", "O", "P", "Q", "R", "S", "T", "U", "V", "W", "X", "Y", "Z">>

Letters ==
    <<"a", "b", "c", "d", "e", "f", "g", "h", "i", "j", "k", "l", "m",
      "n", "o", "p", "q", "r", "s", "t", "u", "v", "w", "x", "y", "z">>

\* the other characters of the model, in code point order
Before == <<"\n", " ", "#", ",", "-", ".", "1", ":">>

\* every character of the model in code point order
CharOrder == Before \o Upper \o Letters

Range(s) == {s[i] : i \in 1..Len(s)}

CharSet == Range(CharOrder)

\* ord(c), up to an order isomorphism
Ord == [c \in CharSet |-> CHOOSE i \in 1..Len(CharOrder) : CharOrder[i] = c]

UpperSet == Range(Upper)

LetterSet == Range(Letters)

\* the characters of the model c.isalpha() holds for: those of [a-zA-Z]
AlphaSet == UpperSet \cup LetterSet

\* str.lower() on one character
LowerChar ==
    [c \in CharSet |->
        IF c \in UpperSet
        THEN Letters[CHOOSE i \in 1..Len(Upper) : Upper[i] = c]
        ELSE c]

\* str.lower()
Lower(s) == [i \in 1..Len(s) |-> LowerChar[s[i]]]

\* c.isalpha()
isalpha(c) == c \in AlphaSet

\* \s of the regular expressions, and what str.strip() removes
IsSpace(c) == c \in {" ", "\n"}

RECURSIVE lstrip(_)
\* str.lstrip()
lstrip(s) ==
    IF s = <<>> THEN s
    ELSE IF IsSpace(s[1]) THEN lstrip(Tail(s))
    ELSE s

RECURSIVE rstrip(_)
\* str.rstrip()
rstrip(s) ==
    IF s = <<>> THEN s
    ELSE IF IsSpace(s[Len(s)]) THEN rstrip(SubSeq(s, 1, Len(s) - 1))
    ELSE s

\* str.strip()
Strip(s) == rstrip(lstrip(s))

\* u < v for Python strings: lexicographic by code point
StrLess(u, v) ==
    \E k \in 1..(Len(v)) :
        /\ k <= Len(u) + 1
        /\ \A j \in 1..(k - 1) : u[j] = v[j]
        /\ \/ k = Len(u) + 1
           \/ Ord[u[k]] < Ord[v[k]]

RECURSIVE sorted(_)
\* sorted(S) of a set of strings
sorted(S) ==
    IF S = {} THEN <<>>
    ELSE LET m == CHOOSE x \in S : \A y \in S \ {x} : StrLess(x, y)
         IN  <<m>> \o sorted(S \ {m})

\* all(c.isalpha() or c == "-" for c in w)
AllAlphaHyphen(w) == \A i \in 1..Len(w) : isalpha(w[i]) \/ w[i] = "-"

\* w.startswith("#") or w.startswith("-")
StartsHashOrHyphen(w) == Len(w) > 0 /\ w[1] \in {"#", "-"}

----------------------------------------------------------------------------
(* Blocklist store *)

\* what the read loop of load_blocklist and clean_blocklist_file does to a line
Normalize(line) == Lower(Strip(line))

\* the three tests of the read loop
Accepted(w) == w # <<>> /\ ~StartsHashOrHyphen(w) /\ AllAlphaHyphen(w)

\* the set the read loop builds from the lines of the file
ReadValid(lines) ==
    {Normalize(lines[i]) : i \in {j \in 1..Len(lines) : Accepted(Normalize(lines[j]))}}

\* if not os.path.exists(BLOCKLIST_FILE): open(BLOCKLIST_FILE, "w").close()
Touch(f) == IF f.exists THEN f ELSE [exists |-> TRUE, lines |-> <<>>]

\* the set load_blocklist returns for the file f
load_blocklist(f) == ReadValid(Touch(f).lines)

\* the file save_blocklist(words) leaves
save_blocklist(words) == [exists |-> TRUE, lines |-> sorted(words)]

\* clean_blocklist_file opening the file with "a" instead of "w"
clean_blocklist_file_appending(f) ==
    IF ~f.exists THEN [exists |-> TRUE, lines |-> <<>>]
    ELSE [exists |-> TRUE, lines |-> f.lines \o sorted(ReadValid(f.lines))]

\* the file clean_blocklist_file leaves
clean_blocklist_file(f) ==
    IF ~f.exists THEN [exists |-> TRUE, lines |-> <<>>]
    ELSE [exists |-> TRUE, lines |-> sorted(ReadValid(f.lines))]

\* what an operation leaves on the terminal: its report, the words it lists, the
\* line the user typed at its prompt and the response it printed; sent tells
\* whether it called client.chat.completions.create
Terminal(op, report, shown, sent, typed, response) ==
    [op |-> op, report |-> report, shown |-> shown, sent |-> sent,
     typed |-> typed, response |-> response]

\* the same for an operation that prompts for nothing and prints no response
Printed(op, report, shown, sent) == Terminal(op, report, shown, sent, <<>>, <<>>)

\* add_invalid(word)
add_invalid(word) ==
    LET f1 == Touch(file)
        words == ReadValid(f1.lines)
        w == Lower(Strip(word))
    IN  /\ IF w = <<>>
           THEN /\ file' = f1
                /\ out' = Terminal("add", "Empty", <<>>, FALSE, word, <<>>)
           ELSE IF ~AllAlphaHyphen(w)
           THEN /\ file' = f1
                /\ out' = Terminal("add", "BadChars", <<>>, FALSE, word, <<>>)
           ELSE IF w \in words
           THEN /\ file' = f1
                /\ out' = Terminal("add", "Already", <<w>>, FALSE, word, <<>>)
           ELSE /\ file' = save_blocklist(words \cup {w})
                /\ out' = Terminal("add", "Added", <<w>>, FALSE, word, <<>>)
        /\ UNCHANGED <<pc, snapshots, hasKey, lastBackup>>

\* show_blocklist()
show_blocklist ==
    LET f1 == Touch(file)
        words == ReadValid(f1.lines)
    IN  /\ file' = f1
        /\ out' = Printed("show", IF words = {} THEN "None" ELSE "Listed",
                          sorted(words), FALSE)
        /\ UNCHANGED <<pc, snapshots, hasKey, lastBackup>>

\* f.read().strip() is non-empty
HasData(lines) == \E i \in 1..Len(lines) : Strip(lines[i]) # <<>>

\* debug_blocklist_path()
debug_blocklist_path ==
    /\ out' = Printed("debug",
                      IF ~file.exists THEN "Missing"
                      ELSE IF HasData(file.lines) THEN "Contents" ELSE "EmptyFile",
                      <<>>, FALSE)
    /\ UNCHANGED <<pc, file, snapshots, hasKey, lastBackup>>

----------------------------------------------------------------------------
(* Backup manager *)

\* the second datetime.now() can give: never before the newest snapshot's
Now == IF DOMAIN snapshots = {} THEN 1
       ELSE CHOOSE t \in DOMAIN snapshots : \A u \in DOMAIN snapshots : u <= t

\* os.path.getmtime of the snapshot named with second ts: shutil.copy writes it
\* right after the name is made, so modification times order as the names do
getmtime(ts) == ts

\* latest without reverse=True: the snapshot modified first
latest_unreversed(backups) ==
    CHOOSE b \in backups : \A c \in backups : getmtime(b) <= getmtime(c)

\* sorted(glob(...), key=os.path.getmtime, reverse=True)[0]
latest(backups) == CHOOSE b \in backups : \A c \in backups : getmtime(c) <= getmtime(b)

\* backup_blocklist(), run in second ts, with or without a failing copy
backup_blocklist(ts, copyFails) ==
    /\ IF ~file.exists
       THEN /\ out' = Printed("backup", "NoFile", <<>>, FALSE)
            /\ UNCHANGED <<snapshots, lastBackup>>
       ELSE IF copyFails
       THEN /\ out' = Printed("backup", "Failed", <<>>, FALSE)
            /\ UNCHANGED <<snapshots, lastBackup>>
       ELSE /\ snapshots' = (ts :> file.lines) @@ snapshots
            /\ lastBackup' = file.lines
            /\ out' = Printed("backup", "Created", <<>>, FALSE)
    /\ UNCHANGED <<file, hasKey>>

\* restore_latest_backup(), with or without a failing copy
restore_latest_backup(copyFails) ==
    LET backups == DOMAIN snapshots
    IN  /\ IF backups = {}
           THEN /\ out' = Printed("restore", "NoBackups", <<>>, FALSE)
                /\ UNCHANGED file
           ELSE IF copyFails
           THEN /\ out' = Printed("restore", "Failed", <<>>, FALSE)
                /\ UNCHANGED file
           ELSE /\ file' = [exists |-> TRUE, lines |-> snapshots[latest(backups)]]
                /\ out' = Printed("restore", "Restored", <<>>, FALSE)
        /\ UNCHANGED <<pc, snapshots, hasKey, lastBackup>>

----------------------------------------------------------------------------
(* Response parser *)

\* the least of a non-empty set of positions
Least(S) == CHOOSE p \in S : \A q \in S : p <= q

RECURSIVE SkipSpace(_, _)
\* where a greedy \s* that starts at p stops: the first position at or after p
\* that holds no white space (Len(t) + 1 when there is none)
SkipSpace(t, p) ==
    IF p > Len(t) THEN Len(t) + 1
    ELSE IF IsSpace(t[p]) THEN SkipSpace(t, p + 1)
    ELSE p

RECURSIVE EndOfLine(_, _)
\* where a greedy .+ that starts at p stops: the last position of p's line
EndOfLine(t, p) ==
    IF p >= Len(t) THEN Len(t)
    ELSE IF t[p + 1] = "\n" THEN p
    ELSE EndOfLine(t, p + 1)

\* ^ under re.MULTILINE
LineStart(t, p) == p = 1 \/ t[p - 1] = "\n"

\* the literal INVALID under re.IGNORECASE, at q
LiteralAt(t, q) ==
    /\ q + 6 <= Len(t)
    /\ Lower(SubSeq(t, q, q + 6)) = <<"i", "n", "v", "a", "l", "i", "d">>

\* the match of  \s*INVALID\s*:\s*(.+)$  that starts at p:
\* [ok, from, to], the captured group being t[from..to]
MatchAt(t, p) ==
    LET q == SkipSpace(t, p)
        r == SkipSpace(t, q + 7)
        s == SkipSpace(t, r + 1)
        \* \s* gives characters back until .+ finds one that is no newline
        back == {k \in (r + 1)..Len(t) : t[k] # "\n"}
        none == [ok |-> FALSE, from |-> 0, to |-> 0]
    IN  IF ~LiteralAt(t, q) THEN none
        ELSE IF ~(r <= Len(t) /\ t[r] = ":") THEN none
        ELSE IF s <= Len(t) THEN [ok |-> TRUE, from |-> s, to |-> EndOfLine(t, s)]
        ELSE IF back = {} THEN none
        ELSE LET k == CHOOSE x \in back : \A y \in back : y <= x
             IN  [ok |-> TRUE, from |-> k, to |-> EndOfLine(t, k)]

RECURSIVE findall(_, _)
\* re.findall(r'(?im)^\s*INVALID\s*:\s*(.+)$', t), scanning from pos
findall(t, pos) ==
    LET starts == {p \in pos..Len(t) : LineStart(t, p) /\ MatchAt(t, p).ok}
    IN  IF starts = {} THEN <<>>
        ELSE LET m == MatchAt(t, Least(starts))
             IN  <<SubSeq(t, m.from, m.to)>> \o findall(t, m.to + 1)

RECURSIVE join(_, _)
\* sep.join(ss)
join(sep, ss) ==
    IF ss = <<>> THEN <<>>
    ELSE IF Len(ss) = 1 THEN ss[1]
    ELSE ss[1] \o sep \o join(sep, Tail(ss))

\* [,\s]
IsSeparator(c) == c = "," \/ IsSpace(c)

RECURSIVE split(_)
\* re.split(r'[,\s]+', s)
split(s) ==
    LET seps == {i \in 1..Len(s) : IsSeparator(s[i])}
    IN  IF seps = {} THEN <<s>>
        ELSE LET i == Least(seps)
                 j == Least({k \in i..Len(s) : k = Len(s) \/ ~IsSeparator(s[k + 1])})
             IN  <<SubSeq(s, 1, i - 1)>> \o split(SubSeq(s, j + 1, Len(s)))

\* [a-zA-Z-]
IsWordChar(c) == c \in AlphaSet \/ c = "-"

\* the token lowercased but not stripped of its other characters
StripTokenKeepsAll(tok) == Lower(tok)

\* re.sub(r'[^a-zA-Z-]', '', tok).lower()
StripToken(tok) == Lower(SelectSeq(tok, IsWordChar))

\* the stop set of detect_potential_invalids
stop ==
    { <<"w", "o", "r", "d">>,
      <<"w", "o", "r", "d", "s">>,
      <<"t", "i", "l", "e">>,
      <<"t", "i", "l", "e", "s">>,
      <<"i", "n", "v", "a", "l", "i", "d">>,
      <<"b", "l", "o", "c", "k", "e", "d">>,
      <<"e", "x", "a", "m", "p", "l", "e">>,
      <<"s", "a", "m", "p", "l", "e">>,
      <<"p", "l", "a", "c", "e", "h", "o", "l", "d", "e", "r">>,
      <<"u", "n", "u", "s", "a", "b", "l", "e">>,
      <<"n", "o", "n", "e">> }

MinLen == 2

MaxLen == 20

\* the filter of the token loop: what out.append(w) is reached for
Kept(w, existing_blocklist) ==
    /\ w # <<>>
    /\ w \notin stop
    /\ MinLen <= Len(w) /\ Len(w) <= MaxLen
    /\ w \notin existing_blocklist

\* detect_potential_invalids(text, existing_blocklist)
detect_potential_invalids(t, existing_blocklist) ==
    LET lines == findall(t, 1)
    IN  IF lines = <<>> THEN <<>>
        ELSE LET tokens == split(join(<<" ">>, lines))
                 outSet == {w \in {StripToken(tokens[i]) : i \in 1..Len(tokens)} :
                               Kept(w, existing_blocklist)}
             IN  sorted(outSet)

----------------------------------------------------------------------------
(* Puzzle session *)

\* the confirmation taken for given unless the user types "n"
ConfirmedUnlessNo(answer) == Lower(Strip(answer)) # <<"n">>

\* input(...).strip().lower() == "y"
Confirmed(answer) == Lower(Strip(answer)) = <<"y">>

\* the merge without the union with the loaded blocklist
merged_without_load(f, new_invalids) == Range(new_invalids)

\* merged = load_blocklist().union(new_invalids)
merged(f, new_invalids) == load_blocklist(f) \cup Range(new_invalids)

\* the credential not looked at before the request
NoApiKeyUnchecked == FALSE

\* if not OPENAI_API_KEY
NoApiKey == ~hasKey

\* solve_puzzle(tiles); the tiles only reach the prompt.  response is what the
\* model answers, answer what the user types, apiFails whether the request raises
solve_puzzle(response, answer, apiFails) ==
    LET f1 == Touch(file)
        words == ReadValid(f1.lines)
        new_invalids == detect_potential_invalids(response, words)
    IN  /\ IF NoApiKey
           THEN /\ file' = f1
                /\ out' = Printed("solve", "NoKey", <<>>, FALSE)
           ELSE IF apiFails
           THEN /\ file' = f1
                /\ out' = Printed("solve", "ApiError", <<>>, TRUE)
           ELSE IF new_invalids = <<>>
           THEN /\ file' = f1
                /\ out' = Terminal("solve", "NoNew", <<>>, TRUE, <<>>, response)
           ELSE IF Confirmed(answer)
           THEN /\ file' = save_blocklist(merged(f1, new_invalids))
                /\ out' = Terminal("solve", "Updated", new_invalids, TRUE, answer, response)
           ELSE /\ file' = f1
                /\ out' = Terminal("solve", "Declined", new_invalids, TRUE, answer, response)
        /\ UNCHANGED <<pc, snapshots, hasKey, lastBackup>>

----------------------------------------------------------------------------
(* Inputs *)

\* sequences over S of length at most n
SeqsUpTo(S, n) == UNION {[1..k -> S] : k \in 0..n}

\* lines a blocklist file can hold before the first start
RawLines ==
    { <<>>,
      <<"a">>,
      <<"b">>,
      <<" ", "A", " ">>,
      <<"#", "a">>,
      <<"-", "b">>,
      <<"b", "1">> }

\* contents blocklist.txt can have when the program starts
InitLines ==
    { <<>>,
      <<<<"a">>>>,
      <<<<" ", "A", " ">>, <<"a">>, <<>>, <<"#", "a">>, <<"-", "b">>, <<"b", "1">>>> }

\* blocklist.txt when the program starts: missing, or with one of the contents
InitFiles ==
    {[exists |-> FALSE, lines |-> <<>>]}
        \cup {[exists |-> TRUE, lines |-> ls] : ls \in InitLines}

\* contents of a snapshot left behind by a run on another blocklist
SnapLines ==
    { <<<<"#", "a">>, <<"B">>>> }

\* the snapshots found on the disk: none, or one of second 1
InitSnapshots == UNION {[names -> SnapLines] : names \in {{}, {1}}}

\* the files clean_blocklist_file is applied to alone
CleanFiles ==
    {[exists |-> FALSE, lines |-> <<>>]}
        \cup {[exists |-> TRUE, lines |-> ls] : ls \in SeqsUpTo(RawLines, MaxFileLines)}

\* what the user types at "Enter the word to block: "
AddInputs ==
    { <<>>,
      <<"a", " ", "b">>,
      <<"A">>,
      <<"-", "a">> }

\* what the user types at "Add these to blocklist? (y/n): "
Answers ==
    { <<" ", "Y">>,
      <<"n">>,
      <<"y", "e", "s">> }

\* what the model answers in a session
Responses ==
    { <<"o", "k">>,
      <<"I", "N", "V", "A", "L", "I", "D", ":", " ", "a", "b", ",", " ", "-", "a">>,
      <<"i", "n", "v", "a", "l", "i", "d", " ", ":", " ", "n", "o", "n", "e">> }

----------------------------------------------------------------------------
(* Interactive shell *)

\* main(): backup_blocklist()
MainBackup ==
    /\ pc = "backup"
    /\ \E ts \in Now..MaxClock, copyFails \in BOOLEAN : backup_blocklist(ts, copyFails)
    /\ pc' = "clean"
    /\ UNCHANGED parserVars

\* main(): clean_blocklist_file(), then the menu loop
MainClean ==
    /\ pc = "clean"
    /\ file' = clean_blocklist_file(file)
    /\ out' = Printed("clean", IF file.exists THEN "Cleaned" ELSE "Created", <<>>, FALSE)
    /\ pc' = "menu"
    /\ UNCHANGED <<snapshots, hasKey, lastBackup>>
    /\ UNCHANGED parserVars

\* choice == "1"
ChooseAdd ==
    /\ pc = "menu"
    /\ \E typed \in AddInputs : add_invalid(Strip(typed))
    /\ UNCHANGED parserVars

\* choice == "2"
ChooseShow ==
    /\ pc = "menu"
    /\ show_blocklist
    /\ UNCHANGED parserVars

\* choice == "3"
ChooseDebug ==
    /\ pc = "menu"
    /\ debug_blocklist_path
    /\ UNCHANGED parserVars

\* choice == "4"
ChooseSolve ==
    /\ pc = "menu"
    /\ \/ solve_puzzle(<<>>, <<>>, TRUE)
       \/ \E response \in Responses, answer \in Answers :
             solve_puzzle(response, answer, FALSE)
    /\ UNCHANGED parserVars

\* choice == "5"
ChooseRestore ==
    /\ pc = "menu"
    /\ \E copyFails \in BOOLEAN : restore_latest_backup(copyFails)
    /\ UNCHANGED parserVars

\* choice == "6": the process ends; the program is started again later, with
\* or without the credential in its environment
ChooseQuit ==
    /\ pc = "menu"
    /\ pc' = "backup"
    /\ hasKey' \in BOOLEAN
    /\ out' = Printed("quit", "Goodbye", <<>>, FALSE)
    /\ UNCHANGED <<file, snapshots, lastBackup>>
    /\ UNCHANGED parserVars

\* any other choice
ChooseOther ==
    /\ pc = "menu"
    /\ out' = Printed("menu", "BadChoice", <<>>, FALSE)
    /\ UNCHANGED <<pc, file, snapshots, hasKey, lastBackup>>
    /\ UNCHANGED parserVars

\* the lines the most recent backup copied, for the snapshots snaps
Newest(snaps) ==
    IF DOMAIN snaps = {} THEN <<>>
    ELSE snaps[CHOOSE t \in DOMAIN snaps : \A u \in DOMAIN snaps : u <= t]

ParserIdle ==
    /\ text = <<>>
    /\ existing = {}
    /\ result = <<>>
    /\ parsed = FALSE

\* the program is started for the first time: there is no snapshot yet
Init ==
    /\ pc = "backup"
    /\ file \in InitFiles
    /\ snapshots \in [{} -> SnapLines]
    /\ hasKey \in BOOLEAN
    /\ out = Printed("start", "None", <<>>, FALSE)
    /\ lastBackup = <<>>
    /\ ParserIdle

Next ==
    \/ MainBackup
    \/ MainClean
    \/ ChooseAdd
    \/ ChooseShow
    \/ ChooseDebug
    \/ ChooseSolve
    \/ ChooseRestore
    \/ ChooseQuit
    \/ ChooseOther

Spec == Init /\ [][Next]_vars

\* the program is started, or its functions are called from the menu, on a
\* disk that may hold a snapshot while blocklist.txt is missing or edited
InitOps ==
    /\ pc \in {"backup", "menu"}
    /\ file \in InitFiles
    /\ snapshots \in InitSnapshots
    /\ hasKey \in BOOLEAN
    /\ out = Printed("start", "None", <<>>, FALSE)
    /\ lastBackup = Newest(snapshots)
    /\ ParserIdle

SpecOps == InitOps /\ [][Next]_vars

----------------------------------------------------------------------------
(* The parser alone: detect_potential_invalids on every text of the bounds *)

\* lines of a response text
ParseLines ==
    { <<>>,
      <<"a", "b">>,
      <<"I", "N", "V", "A", "L", "I", "D", ":">>,
      <<"I", "N", "V", "A", "L", "I", "D", ":", " ", "A", "b", ",", " ", "c", "1", "d", ",", " ", "x">>,
      <<" ", "i", "n", "v", "a", "l", "i", "d", " ", ":", " ", "n", "o", "n", "e", " ", "-", "a", "b">>,
      <<"x", "I", "N", "V", "A", "L", "I", "D", ":", " ", "c", "d">>,
      <<"I", "n", "v", "a", "l", "i", "d", ":", "a", "b", ",", "a", "a", "a", "a", "a", "a", "a", "a", "a", "a", "a", "a", "a", "a", "a", "a", "a", "a", "a", "a", "a", " ", "b", "b", "b", "b", "b", "b", "b", "b", "b", "b", "b", "b", "b", "b", "b", "b", "b", "b", "b", "b">> }

\* the response text "...\nINVALID: Foo, bar1, the, none\n"
SampleText ==
    <<".", ".", ".", "\n", "I", "N", "V", "A", "L", "I", "D", ":", " ", "F", "o", "o", ",", " ", "b", "a", "r", "1", ",", " ", "t", "h", "e", ",", " ", "n", "o", "n", "e", "\n">>

\* response texts: up to MaxTextLines lines joined by newlines, and the sample
Texts ==
    {join(<<"\n">>, ls) : ls \in SeqsUpTo(ParseLines, MaxTextLines)} \cup {SampleText}

\* existing blocklists handed to the parser
Existings ==
    { {},
      {<<"f", "o", "o">>},
      {<<"a", "b">>},
      {<<"a", "b">>, <<"c", "d">>} }

InitParse ==
    /\ pc = "menu"
    /\ file = [exists |-> FALSE, lines |-> <<>>]
    /\ snapshots \in [{} -> SnapLines]
    /\ hasKey = TRUE
    /\ out = Printed("start", "None", <<>>, FALSE)
    /\ lastBackup = <<>>
    /\ text \in Texts
    /\ existing \in Existings
    /\ result = <<>>
    /\ parsed = FALSE

\* new_invalids = detect_potential_invalids(gpt_output, words)
Detect ==
    /\ ~parsed
    /\ result' = detect_potential_invalids(text, existing)
    /\ parsed' = TRUE
    /\ UNCHANGED <<text, existing>>
    /\ UNCHANGED shellVars

NextParse == Detect

SpecParse == InitParse /\ [][NextParse]_vars

----------------------------------------------------------------------------
(* clean_blocklist_file alone, on every file of the bounds *)

InitClean ==
    /\ pc = "clean"
    /\ file \in CleanFiles
    /\ snapshots \in [{} -> SnapLines]
    /\ hasKey = TRUE
    /\ out = Printed("start", "None", <<>>, FALSE)
    /\ lastBackup = <<>>
    /\ ParserIdle

NextClean == MainClean

SpecClean == InitClean /\ [][NextClean]_vars

----------------------------------------------------------------------------
(* Properties *)

\* a trimmed lowercase word made solely of letters and hyphens
WordLine(l) == l # <<>> /\ \A i \in 1..Len(l) : l[i] \in LetterSet \/ l[i] = "-"

\* C1: once the start-up (backup, then clean) is over, the live blocklist file
\* holds only trimmed lowercase words of letters and hyphens, no blank line, no
\* comment line and no line twice.
FileStaysCanonical ==
    pc = "menu" =>
        /\ \A i \in 1..Len(file.lines) : WordLine(file.lines[i])
        /\ \A i, j \in 1..Len(file.lines) : file.lines[i] = file.lines[j] => i = j

\* C2: a restore whose copy succeeds leaves the live file equal to the snapshot
\* created last, whatever the file held and however many snapshots there are.
RestoreYieldsNewestSnapshot ==
    [][(ChooseRestore /\ out'.report = "Restored")
          => file' = [exists |-> TRUE, lines |-> lastBackup]]_vars

\* C2 happens: a restore has succeeded with two snapshots of different contents
RestoredAmongSeveral ==
    /\ out.op = "restore" /\ out.report = "Restored"
    /\ \E t, u \in DOMAIN snapshots : snapshots[t] # snapshots[u]
    /\ file.lines = lastBackup

\* C3: add on an input that is empty after trimming, or holds a character that
\* is no letter and no hyphen, reports the rejection and changes neither the
\* blocklist file (its existence, its content) nor the snapshots.
RejectedAddChangesNothing ==
    [][(/\ out'.op = "add"
        /\ Strip(out'.typed) = <<>> \/ ~AllAlphaHyphen(Strip(out'.typed)))
          => /\ out'.report \in {"Empty", "BadChars"}
             /\ file' = file
             /\ snapshots' = snapshots]_vars

\* C4: clean is idempotent: a second clean right after the first would leave
\* the file as the first left it.
CleanIsIdempotent ==
    [][MainClean => clean_blocklist_file(file') = file']_vars

\* C4 happens: clean has run and left a file of two words or more
CleanedToSeveralWords ==
    /\ out.op = "clean" /\ out.report = "Cleaned"
    /\ Len(file.lines) >= 2

Foo == <<"f", "o", "o">>

Bar == <<"b", "a", "r">>

The == <<"t", "h", "e">>

\* C5: for the text whose only marker line is "INVALID: Foo, bar1, the, none"
\* the parser returns ["bar", "foo"] on an empty blocklist and ["bar"] on {"foo"}.
SampleGivesBarFoo ==
    (parsed /\ text = SampleText) =>
        /\ existing = {} => result = <<Bar, Foo>>
        /\ existing = {Foo} => result = <<Bar>>

\* C5, amended: "the" is no stop word and has three letters, so the parser
\* returns ["bar", "foo", "the"] on an empty blocklist and ["bar", "the"] on {"foo"}.
SampleGivesBarFooThe ==
    (parsed /\ text = SampleText) =>
        /\ existing = {} => result = <<Bar, Foo, The>>
        /\ existing = {Foo} => result = <<Bar, The>>

\* C5 happens: the sample text has been parsed against the blocklist {"foo"}
SampleParsedAgainstFoo == parsed /\ text = SampleText /\ existing = {Foo}

RECURSIVE TextLines(_)
\* the lines of a text, a line ending at each newline
TextLines(t) ==
    LET nl == {i \in 1..Len(t) : t[i] = "\n"}
    IN  IF nl = {} THEN <<t>>
        ELSE <<SubSeq(t, 1, Least(nl) - 1)>> \o TextLines(SubSeq(t, Least(nl) + 1, Len(t)))

\* where the colon of an INVALID: line stands (0 when the line is none): white
\* space, INVALID in any case, white space, a colon
MarkerColon(l) ==
    LET q == SkipSpace(l, 1)
        r == SkipSpace(l, q + 7)
    IN  IF LiteralAt(l, q) /\ r <= Len(l) /\ l[r] = ":" THEN r ELSE 0

\* the tokens of the INVALID: lines of a text, stripped and lowercased
MarkerTokens(t) ==
    UNION {LET l == TextLines(t)[n]
               toks == split(SubSeq(l, MarkerColon(l) + 1, Len(l)))
           IN  {StripToken(toks[i]) : i \in 1..Len(toks)}
           : n \in {m \in 1..Len(TextLines(t)) : MarkerColon(TextLines(t)[m]) > 0}}

\* C6: the parser returns a strictly ascending list that holds exactly the
\* tokens of the INVALID: lines which, stripped and lowercased, are non-empty,
\* no stop word, 2 to 20 characters long and not in the existing blocklist; the
\* empty list when no line is an INVALID: line.
ParserReturnsMarkerLineTokens ==
    parsed =>
        /\ \A i \in 1..(Len(result) - 1) : StrLess(result[i], result[i + 1])
        /\ Range(result) =
              {w \in MarkerTokens(text) :
                  /\ w # <<>>
                  /\ w \notin stop
                  /\ 2 <= Len(w) /\ Len(w) <= 20
                  /\ w \notin existing}

\* the answers that say yes to "(y/n)"
YesAnswers == {<<"y">>, <<" ", "Y">>}

\* C7: a solve changes the blocklist file only if the parser returned a
\* candidate and the user then said yes; the file is then the union of the
\* blocklist loaded at that moment and the candidates, sorted; in every other
\* case the words of the file are those of before.
NoAutomaticAcceptance ==
    [][out'.op = "solve" =>
          LET before == load_blocklist(file)
              candidates == detect_potential_invalids(out'.response, before)
              accepted == /\ out'.sent
                          /\ candidates # <<>>
                          /\ out'.typed \in YesAnswers
          IN  /\ file' # file => accepted
              /\ accepted =>
                    file' = [exists |-> TRUE,
                             lines |-> sorted(before \cup Range(candidates))]
              /\ ~accepted => load_blocklist(file') = before
              /\ out'.report \in {"Updated", "Declined"} =>
                    (out'.shown = candidates /\ candidates # <<>>)
              /\ out'.report = "NoNew" => candidates = <<>>
              /\ out'.report = "Declined" => out'.typed \notin YesAnswers]_vars

\* C7 happens: a solve has merged two candidates into a blocklist that held a word
SolveMergedCandidates ==
    /\ out.op = "solve" /\ out.report = "Updated"
    /\ Len(out.shown) >= 2
    /\ Len(file.lines) > Len(out.shown)

\* C8: a solve that fails, for want of a credential (no request is sent then)
\* or because the request raises, leaves the blocked words and the snapshots
\* as they were and returns to the menu, where every action can be chosen.
FailedSolveIsContained ==
    [][out'.op = "solve" =>
          /\ ~hasKey => (out'.report = "NoKey" /\ ~out'.sent)
          /\ out'.report = "ApiError" => out'.sent
          /\ out'.report \in {"NoKey", "ApiError"} =>
                /\ load_blocklist(file') = load_blocklist(file)
                /\ snapshots' = snapshots
                /\ pc' = "menu"]_vars

\* C8 happens: a request has failed while the blocklist held a word
FailedRequestSeen ==
    /\ out.op = "solve" /\ out.report = "ApiError"
    /\ load_blocklist(file) # {}
    /\ pc = "menu"

\* C9: a word the program reports as newly persisted (Added by add, or merged
\* by a confirmed solve) is in the set the next load returns.
ReportedWordsAreLoaded ==
    (\/ out.op = "add" /\ out.report = "Added"
     \/ out.op = "solve" /\ out.report = "Updated")
        => \A i \in 1..Len(out.shown) : out.shown[i] \in load_blocklist(file)

\* C10: no operation but restore makes load lose a word, and clean leaves the
\* set load returns exactly as it was.
OnlyRestoreLosesWords ==
    [][/\ ChooseRestore \/ load_blocklist(file) \subseteq load_blocklist(file')
       /\ MainClean => load_blocklist(file') = load_blocklist(file)]_vars

\* C10 happens: add has added a word to a blocklist that held another, and load
\* returns both
AddedBesideAnother ==
    /\ out.op = "add" /\ out.report = "Added"
    /\ Cardinality(load_blocklist(file)) >= 2

====
